---- MODULE Spec2Model ----
(***************************************************************************)
(* The hostname resolver of core/net/resolv.c: the table of names, the    *)
(* query driver check_entries(), the response handler newdata() and the   *)
(* public calls resolv_query() and resolv_lookup().                       *)
(*                                                                         *)
(* Strings are sequences of one-character strings, datagrams are          *)
(* sequences of bytes (0..255), addresses are sequences of 4 (IPv4 build) *)
(* or 16 (IPv6 build) bytes.  A NULL pointer is the empty sequence.       *)
(***************************************************************************)
EXTENDS Integers, Sequences, FiniteSets, TLC

VARIABLES
  names,                        \* static struct namemap names[RESOLV_ENTRIES]
  seqno,                        \* static u8_t seqno
  resolv_default_dns_server,    \* uip_ipaddr_t resolv_default_dns_server
  UIP_CONF_IPV6,                \* build option: address family
  UIP_CONF_LOOPBACK_INTERFACE,  \* build option: "localhost" in resolv_lookup
  sent,                         \* datagrams handed to uip_udp_packet_sendto by the last step
  found,                        \* resolv_found() calls made by the last step
  ret,                          \* value returned by the last resolv_lookup
  last,                         \* the last operation and its input
  nfound,                       \* per slot: resolv_found() calls since the slot was last queried
  nsent,                        \* per slot: questions sent since the slot was last queried
  answered,                     \* per slot: a response has been applied since the slot was last queried
  nqueries,                     \* number of resolv_query calls so far
  nscans,                       \* number of check_entries runs so far (counted only when limited)
  limit                         \* the bounds of this exploration

vars == <<names, seqno, resolv_default_dns_server, UIP_CONF_IPV6,
          UIP_CONF_LOOPBACK_INTERFACE, sent, found, ret, last, nfound, nsent,
          answered, nqueries, nscans, limit>>

-----------------------------------------------------------------------------
(* Program constants                                                       *)

RESOLV_ENTRIES == 4
RESOLV_CONF_MAX_RETRIES == 8
RESOLV_CONF_MAX_MDNS_RETRIES == 3
RESOLV_CONF_MAX_DOMAIN_NAME_SIZE == 32

STATE_UNUSED == 0
STATE_NEW == 1
STATE_ASKING == 2
STATE_DONE == 3
STATE_ERROR == 4

DNS_FLAG1_RESPONSE == 128
DNS_FLAG1_AUTHORATIVE == 4
DNS_FLAG1_RD == 1
DNS_FLAG2_RA == 128
DNS_FLAG2_ERR_NAME == 3
DNS_FLAG2_ERR_MASK == 15

DNS_TYPE_A == 1
DNS_TYPE_CNAME == 5
DNS_TYPE_AAAA == 28
DNS_TYPE_ANY == 255
DNS_CLASS_IN == 1

DNS_PORT == 53
MDNS_PORT == 5353

ID_OFFSET == 61616
SIZEOF_DNS_HDR == 12

NULL == <<>>

(* Bounds of the exploration                                               *)
MaxQueries == 2      \* resolv_query calls from the empty table (scans unlimited)
MaxFullQueries == 2  \* resolv_query calls from the full table
MaxFullScans == 1    \* check_entries runs from the full table
WrapBase == 251      \* sequence number of slot 0 in the full table near wrap-around

-----------------------------------------------------------------------------
(* Characters and strings                                                  *)

Letters == <<"a","b","c","d","e","f","g","h","i","j","k","l","m",
             "n","o","p","q","r","s","t","u","v","w","x","y","z">>

\* the character codes of the letters
Ascii == [c \in {Letters[k] : k \in 1..26} |-> 96 + (CHOOSE k \in 1..26 : Letters[k] = c)]

Ord(c) == IF c = "." THEN 46 ELSE Ascii[c]

RECURSIVE Bytes(_)
Bytes(s) == IF s = <<>> THEN <<>> ELSE <<Ord(Head(s))>> \o Bytes(Tail(s))

Min(a, b) == IF a < b THEN a ELSE b

\* strncpy(dst, src, n) into a zeroed or reused char array read back as a
\* C string: at most n characters are copied.
strncpy(src, n) == SubSeq(src, 1, Min(Len(src), n))

local_suffix == <<"l","o","c","a","l">>
localhost == <<"l","o","c","a","l","h","o","s","t">>

-----------------------------------------------------------------------------
(* Addresses                                                               *)

AddrLen(ipv6) == IF ipv6 THEN 16 ELSE 4

ZeroAddr(ipv6) == [k \in 1..AddrLen(ipv6) |-> 0]

\* resolv_default_dns_server as initialised: 2001:470:20::2 or 8.8.8.8
DefaultServer(ipv6) ==
  IF ipv6 THEN <<32,1,4,112, 0,32,0,0, 0,0,0,0, 0,0,0,2>> ELSE <<8,8,8,8>>

\* resolv_mdns_addr: ff02::fb or 224.0.0.251
resolv_mdns_addr(ipv6) ==
  IF ipv6 THEN <<255,2,0,0, 0,0,0,0, 0,0,0,0, 0,0,0,251>> ELSE <<224,0,0,251>>

\* the static loopback address of resolv_lookup: ::1 or 127.0.0.1
loopback(ipv6) ==
  IF ipv6 THEN <<0,0,0,0, 0,0,0,0, 0,0,0,0, 0,0,0,1>> ELSE <<127,0,0,1>>

-----------------------------------------------------------------------------
(* Transaction IDs                                                         *)

\* uip_htons(i+61616): the 16-bit ID put on the wire for slot i
RESOLV_ENCODE_INDEX(i) == (i + ID_OFFSET) % 65536

\* (unsigned char)(uip_ntohs(id)-61616)
RESOLV_DECODE_INDEX_plain(id) == id % 256   \* mutant: the offset is not subtracted

RESOLV_DECODE_INDEX(id) == (id - ID_OFFSET) % 256

Hi(w) == (w \div 256) % 256
Lo(w) == w % 256
U16(hi, lo) == hi * 256 + lo

-----------------------------------------------------------------------------
(* Wire codec                                                              *)

\* position of the first '.' of the characters s, or Len(s)+1 when there is none
RECURSIVE DotPos(_, _)
DotPos(s, k) ==
  IF k > Len(s) THEN k
  ELSE IF s[k] = 46 THEN k
  ELSE DotPos(s, k + 1)

\* the do-while loop of encode_name: one (length, bytes) group per label
RECURSIVE encode_labels(_)
encode_labels(s) ==
  LET k == DotPos(s, 1)
      label == SubSeq(s, 1, k - 1)
  IN  <<Len(label)>> \o label \o
      (IF k > Len(s) THEN <<>> ELSE encode_labels(SubSeq(s, k + 1, Len(s))))

\* mutant: the name is written without its terminating zero
encode_name_unterminated(s) == encode_labels(Bytes(s))

\* encode_name(query, nameptr): the bytes written, terminator included
encode_name(s) == encode_labels(Bytes(s)) \o <<0>>

-----------------------------------------------------------------------------
(* The table                                                               *)

Slots == 0..(RESOLV_ENTRIES - 1)

\* memset(names, 0, sizeof(names))
EmptyEntry(ipv6) ==
  [state |-> STATE_UNUSED, tmr |-> 0, retries |-> 0, seqno |-> 0, err |-> 0,
   is_mdns |-> 0, name |-> <<>>, ipaddr |-> ZeroAddr(ipv6)]

\* the loop "while(len && buf[len-1]=='.') buf[--len]=0"
RECURSIVE StripDots(_)
StripDots(s) ==
  IF Len(s) > 0 /\ s[Len(s)] = "." THEN StripDots(SubSeq(s, 1, Len(s) - 1))
  ELSE s

\* mutant: the name is taken as it is given
resolv_query_name_as_given(name) == name

\* resolv_query: "Remove trailing dots, if present"
resolv_query_name(name) ==
  IF Len(name) > 0 /\ name[Len(name)] = "."
  THEN StripDots(strncpy(name, RESOLV_CONF_MAX_DOMAIN_NAME_SIZE + 1))
  ELSE name

\* resolv_lookup: "Remove trailing dots, if present"
resolv_lookup_name(name) ==
  IF Len(name) > 0 /\ name[Len(name)] = "."
  THEN StripDots(strncpy(name, RESOLV_CONF_MAX_DOMAIN_NAME_SIZE))
  ELSE name

\* mutant: no entry is ever found older than the one remembered
Older_never(seq, eseq, lseq) == FALSE

\* "seqno - nameptr->seqno > lseq": both u8_t operands are promoted to int,
\* so the difference is negative once seqno has wrapped below the entry's.
Older(seq, eseq, lseq) == seq - eseq > lseq

\* mutant: the loop does not look for an entry that already holds the name
RECURSIVE query_slot_no_match(_, _, _, _, _, _)
query_slot_no_match(tbl, name, seq, i, lseq, lseqi) ==
  IF i = RESOLV_ENTRIES THEN lseqi
  ELSE IF tbl[i].state = STATE_UNUSED THEN i
  ELSE IF seq - tbl[i].seqno > lseq
       THEN query_slot_no_match(tbl, name, seq, i + 1, (seq - tbl[i].seqno) % 256, i)
       ELSE query_slot_no_match(tbl, name, seq, i + 1, lseq, lseqi)

\* the slot-selection loop of resolv_query and the "i == RESOLV_ENTRIES" fix-up
RECURSIVE query_slot(_, _, _, _, _, _)
query_slot(tbl, name, seq, i, lseq, lseqi) ==
  IF i = RESOLV_ENTRIES THEN lseqi
  ELSE IF tbl[i].state = STATE_UNUSED \/ tbl[i].name = name THEN i
  ELSE IF Older(seq, tbl[i].seqno, lseq)
       THEN query_slot(tbl, name, seq, i + 1, (seq - tbl[i].seqno) % 256, i)
       ELSE query_slot(tbl, name, seq, i + 1, lseq, lseqi)

\* the mDNS test of resolv_query: longer than "local" and ending in it
IsLocalName(name) ==
  /\ Len(name) > Len(local_suffix)
  /\ SubSeq(name, Len(name) - Len(local_suffix) + 1, Len(name)) = local_suffix

\* mutant: an entry that already holds the name keeps its sequence number
query_entry_keeps_seqno(e, name, seq) ==
  [e EXCEPT !.is_mdns = IF IsLocalName(name) THEN 1 ELSE 0,
            !.name = strncpy(name, RESOLV_CONF_MAX_DOMAIN_NAME_SIZE + 1),
            !.state = STATE_NEW,
            !.seqno = IF e.state # STATE_UNUSED /\ e.name = name THEN e.seqno ELSE seq]

\* mutant: the counter is incremented before it is stored in the entry
query_entry_next_seqno(e, name, seq) ==
  [e EXCEPT !.is_mdns = IF IsLocalName(name) THEN 1 ELSE 0,
            !.name = strncpy(name, RESOLV_CONF_MAX_DOMAIN_NAME_SIZE + 1),
            !.state = STATE_NEW,
            !.seqno = (seq + 1) % 256]

\* mutant: resolv_query marks the entry Asking at once
query_entry_asking(e, name, seq) ==
  [e EXCEPT !.is_mdns = IF IsLocalName(name) THEN 1 ELSE 0,
            !.name = strncpy(name, RESOLV_CONF_MAX_DOMAIN_NAME_SIZE + 1),
            !.state = STATE_ASKING,
            !.seqno = seq]

\* the entry as resolv_query leaves it
query_entry(e, name, seq) ==
  [e EXCEPT !.is_mdns = IF IsLocalName(name) THEN 1 ELSE 0,
            !.name = strncpy(name, RESOLV_CONF_MAX_DOMAIN_NAME_SIZE + 1),
            !.state = STATE_NEW,
            !.seqno = seq]

\* mutant: the walk does not test the entry's state
RECURSIVE lookup_slot_any_state(_, _, _)
lookup_slot_any_state(tbl, name, i) ==
  IF i = RESOLV_ENTRIES THEN NULL
  ELSE IF name = tbl[i].name THEN tbl[i].ipaddr
  ELSE lookup_slot_any_state(tbl, name, i + 1)

\* mutant: the walk does not compare the names
RECURSIVE lookup_slot_any_name(_, _, _)
lookup_slot_any_name(tbl, name, i) ==
  IF i = RESOLV_ENTRIES THEN NULL
  ELSE IF tbl[i].state = STATE_DONE THEN tbl[i].ipaddr
  ELSE lookup_slot_any_name(tbl, name, i + 1)

\* the table walk of resolv_lookup
RECURSIVE lookup_slot(_, _, _)
lookup_slot(tbl, name, i) ==
  IF i = RESOLV_ENTRIES THEN NULL
  ELSE IF tbl[i].state = STATE_DONE /\ name = tbl[i].name THEN tbl[i].ipaddr
  ELSE lookup_slot(tbl, name, i + 1)

\* the value resolv_lookup(name) returns on table tbl
lookup_value(tbl, name, loop, ipv6) ==
  LET n == resolv_lookup_name(name)
  IN  IF loop /\ n # localhost THEN loopback(ipv6)   \* if(strcmp(name,"localhost"))
      ELSE lookup_slot(tbl, n, 0)

-----------------------------------------------------------------------------
(* The query driver                                                        *)

\* mutant: the two maxima are exchanged
MaxRetries_swapped(e) ==
  IF e.is_mdns # 0 THEN RESOLV_CONF_MAX_RETRIES ELSE RESOLV_CONF_MAX_MDNS_RETRIES

\* mutant: the unicast maximum for both kinds of entry
MaxRetries_unicast(e) == RESOLV_CONF_MAX_RETRIES

\* is_mdns ? RESOLV_CONF_MAX_MDNS_RETRIES : RESOLV_CONF_MAX_RETRIES
MaxRetries(e) ==
  IF e.is_mdns # 0 THEN RESOLV_CONF_MAX_MDNS_RETRIES ELSE RESOLV_CONF_MAX_RETRIES

\* the question check_entries builds in uip_appdata for slot i
dns_question(i, e, ipv6) ==
  LET id == RESOLV_ENCODE_INDEX(i)
      qtype == IF ipv6 THEN DNS_TYPE_AAAA ELSE DNS_TYPE_A
  IN  <<Hi(id), Lo(id),
        IF e.is_mdns = 0 THEN DNS_FLAG1_RD ELSE 0, 0,
        0, 1,  0, 0,  0, 0,  0, 0>>
      \o encode_name(e.name)
      \o <<Hi(qtype), Lo(qtype), Hi(DNS_CLASS_IN), Lo(DNS_CLASS_IN)>>

\* mutant: every question goes to the configured server
question_send_unicast(i, e, server, ipv6) ==
  [slot |-> i,
   data |-> dns_question(i, e, ipv6),
   addr |-> server,
   port |-> DNS_PORT]

\* the uip_udp_packet_sendto call of check_entries for slot i
question_send(i, e, server, ipv6) ==
  [slot |-> i,
   data |-> dns_question(i, e, ipv6),
   addr |-> IF e.is_mdns # 0 THEN resolv_mdns_addr(ipv6) ELSE server,
   port |-> IF e.is_mdns # 0 THEN MDNS_PORT ELSE DNS_PORT]

\* resolv_found(name, ipaddr); slot is bookkeeping of the model only
resolv_found(i, name, ipaddr) == [slot |-> i, name |-> name, ipaddr |-> ipaddr]

\* mutant: the scan goes on after a question has been sent
ScanContinues(out) == FALSE

\* after a question has been sent the scan stops ("break")
ScanEnds(out) == TRUE

\* the for loop of check_entries from index i on; r is the table, the
\* datagrams sent and the notifications made so far
RECURSIVE check_entries_loop(_, _, _, _)
check_entries_loop(i, r, server, ipv6) ==
  IF i >= RESOLV_ENTRIES THEN r
  ELSE
    LET e == r.names[i]
        ask(e2) ==
          LET r2 == [r EXCEPT !.names[i] = e2,
                              !.sent = Append(@, question_send(i, e2, server, ipv6))]
          IN  IF ScanEnds(r2) THEN r2
              ELSE check_entries_loop(i + 1, r2, server, ipv6)
    IN
    IF e.state = STATE_NEW THEN
      ask([e EXCEPT !.state = STATE_ASKING, !.tmr = 1, !.retries = 0])
    ELSE IF e.state = STATE_ASKING THEN
      LET t == (e.tmr - 1) % 256
          n == (e.retries + 1) % 256
      IN  IF t = 0 THEN
            IF n = MaxRetries(e) THEN
              check_entries_loop(i + 1,
                [r EXCEPT !.names[i] = [e EXCEPT !.tmr = t, !.retries = n,
                                                 !.state = STATE_ERROR],
                          !.found = Append(@, resolv_found(i, e.name, NULL))],
                server, ipv6)
            ELSE ask([e EXCEPT !.tmr = n, !.retries = n])
          ELSE check_entries_loop(i + 1, [r EXCEPT !.names[i] = [e EXCEPT !.tmr = t]],
                                  server, ipv6)
    ELSE check_entries_loop(i + 1, r, server, ipv6)

-----------------------------------------------------------------------------
(* The response handler                                                    *)

OOB == 0 - 1   \* a cursor that has left the datagram
Fault == <<OOB>>   \* the answer loop read outside the datagram

\* "*nameptr & 0xc0": either of the top two bits is set
IsCompressed(b) == (b \div 64) % 4 # 0

\* buf[p], p counted from 0 as the C pointer arithmetic does
Rd(buf, p) == buf[p + 1]

InBuf(buf, p) == p >= 0 /\ p < Len(buf)

\* parse_name(query): the cursor after the name that starts at p
RECURSIVE parse_name(_, _)
parse_name(buf, p) ==
  IF ~InBuf(buf, p) THEN OOB
  ELSE LET n == Rd(buf, p)
       IN  IF IsCompressed(n) THEN p + 2
           ELSE LET q == p + 1 + n
                IN  IF ~InBuf(buf, q) THEN OOB
                    ELSE IF Rd(buf, q) # 0 THEN parse_name(buf, q)
                    ELSE q + 1

\* "if(*nameptr & 0xc0) nameptr += 2; else nameptr = parse_name(nameptr);"
skip_name(buf, p) ==
  IF ~InBuf(buf, p) THEN OOB
  ELSE IF IsCompressed(Rd(buf, p)) THEN p + 2
  ELSE parse_name(buf, p)

\* the "while(nquestions > 0)" loop of the response path
RECURSIVE skip_questions(_, _, _)
skip_questions(buf, p, nquestions) ==
  IF nquestions = 0 THEN p
  ELSE LET q == skip_name(buf, p)
       IN  IF q = OOB THEN OOB
           ELSE skip_questions(buf, q + 4, nquestions - 1)

\* the acceptance test on an answer record.  The IPv4 line reads
\*   uip_ntohs(ans->class)&0x7FFF == DNS_CLASS_IN
\* where == binds tighter than &: the class is masked with the value of the
\* comparison 0x7FFF == DNS_CLASS_IN.
AnswerUsable(ipv6, type, class, len) ==
  IF ipv6
  THEN type = DNS_TYPE_AAAA /\ (class % 32768) = DNS_CLASS_IN /\ len = 16
  ELSE LET mask == IF 32767 = DNS_CLASS_IN THEN 1 ELSE 0
       IN  type = DNS_TYPE_A /\ (class % 2) * mask # 0 /\ len = 4

\* the "while(nanswers > 0)" loop: the address of the first usable record,
\* NULL when the records run out, Fault when the cursor leaves the datagram
RECURSIVE scan_answers(_, _, _, _)
scan_answers(buf, p, nanswers, ipv6) ==
  IF nanswers = 0 THEN NULL
  ELSE LET q == IF p = OOB THEN OOB ELSE skip_name(buf, p)
       IN  IF q = OOB \/ ~InBuf(buf, q + 9) THEN Fault
           ELSE LET type == U16(Rd(buf, q), Rd(buf, q + 1))
                    class == U16(Rd(buf, q + 2), Rd(buf, q + 3))
                    len == U16(Rd(buf, q + 8), Rd(buf, q + 9))
                IN  IF AnswerUsable(ipv6, type, class, len)
                    THEN IF InBuf(buf, q + 9 + AddrLen(ipv6))
                         THEN SubSeq(buf, q + 11, q + 10 + AddrLen(ipv6))
                         ELSE Fault
                    ELSE scan_answers(buf, q + 10 + len, nanswers - 1, ipv6)

\* an address a read outside the datagram may come up with
WildAddr(ipv6) == [k \in 1..AddrLen(ipv6) |-> 170]

\* what the answer loop can end with: a read outside the datagram yields
\* whatever the buffer holds there, so every outcome the build can produce
\* for such a read is possible
AnswerOutcomes(buf, p, nanswers, ipv6) ==
  LET a == scan_answers(buf, p, nanswers, ipv6)
  IN  IF a = Fault THEN {NULL} \cup (IF ipv6 THEN {WildAddr(ipv6)} ELSE {})
      ELSE {a}

\* is the ID check of newdata passed: "if(i>=RESOLV_ENTRIES) return"
ValidIndex(i) == i < RESOLV_ENTRIES

\* mutant: a response without answers is processed like any other
NoAnswers_never(nanswers) == FALSE

\* is the datagram thrown away because it carries no answers: "if(!nanswers)"
NoAnswers(nanswers) == nanswers = 0

\* the response path of newdata on datagram buf when the answer loop ends
\* with a (an address or NULL): the table and the resolv_found calls
newdata_response(tbl, buf, a) ==
  LET i == RESOLV_DECODE_INDEX(U16(Rd(buf, 0), Rd(buf, 1)))
      nanswers == Rd(buf, 7)        \* (u8_t)uip_htons(hdr->numanswers)
      err == Rd(buf, 3) % (DNS_FLAG2_ERR_MASK + 1)
      quiet == [names |-> tbl, found |-> <<>>]
  IN  IF ~ValidIndex(i) THEN quiet
      ELSE IF tbl[i].state # STATE_ASKING THEN quiet
      ELSE IF NoAnswers(nanswers) THEN quiet
      ELSE IF err # 0
        THEN [names |-> [tbl EXCEPT ![i].state = STATE_ERROR, ![i].err = err],
              found |-> <<resolv_found(i, tbl[i].name, NULL)>>]
      ELSE IF a = NULL
        THEN [names |-> [tbl EXCEPT ![i].state = STATE_ERROR, ![i].err = err],
              found |-> <<>>]
      ELSE [names |-> [tbl EXCEPT ![i].state = STATE_DONE, ![i].err = err,
                                  ![i].ipaddr = a],
            found |-> <<resolv_found(i, tbl[i].name, a)>>]

\* is the datagram a request: "(hdr->flags1==0)&&(hdr->flags2==0)"
IsRequest(buf) == Rd(buf, 2) = 0 /\ Rd(buf, 3) = 0

\* the datagram after parse_name(query) at p: parse_name writes '.' over each
\* length byte and 0 over a byte with one of the top two bits set
RECURSIVE parse_name_marks(_, _)
parse_name_marks(buf, p) ==
  IF ~InBuf(buf, p) THEN buf
  ELSE LET n == Rd(buf, p)
       IN  IF IsCompressed(n) THEN [buf EXCEPT ![p + 1] = 0]
           ELSE LET b == [buf EXCEPT ![p + 1] = 46]
                    q == p + 1 + n
                IN  IF InBuf(buf, q) /\ Rd(buf, q) # 0 THEN parse_name_marks(b, q)
                    ELSE b

\* the C string that starts at p, Fault when it does not end in the datagram
RECURSIVE CString(_, _)
CString(buf, p) ==
  IF ~InBuf(buf, p) THEN Fault
  ELSE IF Rd(buf, p) = 0 THEN <<>>
  ELSE LET r == CString(buf, p + 1)
       IN  IF r = Fault THEN Fault ELSE <<Rd(buf, p)>> \o r

ToLower(b) == IF b >= 65 /\ b <= 90 THEN b + 32 ELSE b
Lower(s) == [k \in 1..Len(s) |-> ToLower(s[k])]

\* resolv_hostname as initialised, and the addresses the responder answers
\* with: uip_gethostaddr, or the link-local addresses of uip_ds6_if
resolv_hostname == <<"c","o","n","t","i","k","i">>
uip_hostaddr == <<192,0,2,7>>
uip_ds6_if_addr_list == << <<254,128,0,0, 0,0,0,0, 0,0,0,0, 0,0,0,7>> >>

\* mutant: every name is taken for this host's
IsOurName_any(s) == TRUE

\* the two comparisons of a question's name with resolv_hostname and ".local"
IsOurName(s) ==
  LET h == Bytes(resolv_hostname)
      n == Len(h)
  IN  /\ Len(s) >= n
      /\ Lower(SubSeq(s, 1, n)) = Lower(h)
      /\ Lower(SubSeq(s, n + 1, Len(s))) = Bytes(<<".">> \o local_suffix)

\* the test on a question's class and type
QuestionWanted(ipv6, type, class) ==
  /\ (class % 32768) = DNS_CLASS_IN
  /\ type = DNS_TYPE_ANY \/ type = (IF ipv6 THEN DNS_TYPE_AAAA ELSE DNS_TYPE_A)

\* struct dns_answer as the responder fills it
mdns_answer(type, addr) ==
  <<Hi(type), Lo(type), Hi(DNS_CLASS_IN + 32768), Lo(DNS_CLASS_IN + 32768),
    0, 0, 0, 120, Hi(Len(addr)), Lo(Len(addr))>> \o addr

\* the answer records for the addresses from the k-th on: the first carries
\* the encoded name, the others a pointer to it
RECURSIVE mdns_answers(_, _, _)
mdns_answers(s, addrs, k) ==
  IF k > Len(addrs) THEN <<>>
  ELSE (IF k = 1 THEN encode_labels(s) \o <<0>> ELSE <<192, SIZEOF_DNS_HDR>>)
       \o mdns_answer(DNS_TYPE_AAAA, addrs[k]) \o mdns_answers(s, addrs, k + 1)

\* the reply built in place of the request for the name s
mdns_reply(buf, s, ipv6) ==
  LET flags1 == DNS_FLAG1_RESPONSE + DNS_FLAG1_AUTHORATIVE  \* flags1 was 0
      acount == IF ipv6 THEN Len(uip_ds6_if_addr_list) ELSE 1
  IN  <<Rd(buf, 0), Rd(buf, 1), flags1, Rd(buf, 3), 0, 0, Hi(acount), Lo(acount),
        0, 0, 0, 0>>
      \o (IF ipv6 THEN mdns_answers(s, uip_ds6_if_addr_list, 1)
          ELSE encode_labels(s) \o <<0>> \o mdns_answer(DNS_TYPE_A, uip_hostaddr))

\* "char* name = 0"
NoName == OOB

\* the "while(nquestions > 0)" loop of the responder: the reply, NULL when no
\* question is for this host, Fault when a read leaves the datagram or the
\* name pointer is still 0 when it is compared
RECURSIVE mdns_questions(_, _, _, _, _)
mdns_questions(buf, p, name, nquestions, ipv6) ==
  IF nquestions = 0 THEN NULL
  ELSE IF ~InBuf(buf, p) THEN Fault
  ELSE LET comp == IsCompressed(Rd(buf, p))
           q == IF comp THEN p + 2 ELSE parse_name(buf, p)
           b == IF comp THEN buf ELSE parse_name_marks(buf, p)
           nm == IF comp THEN name ELSE p + 1
       IN  IF q = OOB \/ ~InBuf(buf, q + 3) THEN Fault
           ELSE IF ~QuestionWanted(ipv6, U16(Rd(b, q), Rd(b, q + 1)),
                                   U16(Rd(b, q + 2), Rd(b, q + 3)))
             THEN mdns_questions(b, q + 4, nm, nquestions - 1, ipv6)
           ELSE IF nm = NoName \/ CString(b, nm) = Fault THEN Fault
           ELSE IF ~IsOurName(CString(b, nm))
             THEN mdns_questions(b, q + 4, nm, nquestions - 1, ipv6)
           ELSE mdns_reply(b, CString(b, nm), ipv6)

\* the uip_udp_packet_sendto call of the responder; src is the datagram's
\* source address and port
reply_send(data, src, ipv6) ==
  [slot |-> 0 - 1,
   data |-> data,
   addr |-> IF src.port = MDNS_PORT THEN resolv_mdns_addr(ipv6) ELSE src.addr,
   port |-> src.port]

\* mutant: a request that carries answers is answered like any other
newdata_request_with_answers(buf, src, ipv6) ==
  LET nquestions == Rd(buf, 5)
      r == mdns_questions(buf, SIZEOF_DNS_HDR, NoName, nquestions, ipv6)
  IN  IF nquestions = 0 THEN {<<>>}
      ELSE IF r = NULL THEN {<<>>}
      ELSE IF r = Fault THEN {<<>>, <<reply_send(Fault, src, ipv6)>>}
      ELSE {<<reply_send(r, src, ipv6)>>}

\* the request path of newdata: the datagrams it can send.  A read outside
\* the datagram finds whatever the buffer holds there, so the handler may
\* answer or not.
newdata_request(buf, src, ipv6) ==
  LET nquestions == Rd(buf, 5)      \* (u8_t)uip_htons(hdr->numquestions)
      nanswers == Rd(buf, 7)
      r == mdns_questions(buf, SIZEOF_DNS_HDR, NoName, nquestions, ipv6)
  IN  IF nquestions = 0 \/ nanswers # 0 THEN {<<>>}
      ELSE IF r = NULL THEN {<<>>}
      ELSE IF r = Fault THEN {<<>>, <<reply_send(Fault, src, ipv6)>>}
      ELSE {<<reply_send(r, src, ipv6)>>}

-----------------------------------------------------------------------------
(* Inputs                                                                  *)

host_example == <<"h","o","s","t",".","e","x","a","m","p","l","e">>
contiki_local == resolv_hostname \o <<".">> \o local_suffix
contiki_local_dot == contiki_local \o <<".">>

QueryNames == {host_example, contiki_local_dot, <<"b">>, <<"c">>, <<"d">>}
FewNames == {host_example, contiki_local_dot}
FullNames == <<host_example, contiki_local, <<"b">>, <<"c">>>>
LookupNames == {host_example, contiki_local_dot}

\* an address a server answers with
Addr1(ipv6) ==
  IF ipv6 THEN <<32,1,13,184, 0,0,0,0, 0,0,0,0, 0,0,0,1>> ELSE <<192,0,2,1>>

QType(ipv6) == IF ipv6 THEN DNS_TYPE_AAAA ELSE DNS_TYPE_A

\* the 12 bytes of struct dns_hdr, in network byte order
dns_hdr(id, flags1, flags2, numquestions, numanswers) ==
  <<Hi(id), Lo(id), flags1, flags2, Hi(numquestions), Lo(numquestions),
    Hi(numanswers), Lo(numanswers), 0, 0, 0, 0>>

\* a question: name, type, class
question_rr(name, type, class) ==
  encode_name(name) \o <<Hi(type), Lo(type), Hi(class), Lo(class)>>

\* an answer record: name field, then struct dns_answer (ttl 120)
answer_rr(namefield, type, class, len, rdata) ==
  namefield \o <<Hi(type), Lo(type), Hi(class), Lo(class), 0, 0, 0, 120,
                 Hi(len), Lo(len)>> \o rdata

NamePtr == <<192, SIZEOF_DNS_HDR>>   \* compression pointer to the question name

FlagsResponse == DNS_FLAG1_RESPONSE + DNS_FLAG1_RD   \* flags1 of a server's reply
FlagsRA == DNS_FLAG2_RA                              \* flags2 of a reply without error
FlagsNameError == DNS_FLAG2_RA + DNS_FLAG2_ERR_NAME  \* flags2 of a name error

\* a reply for slot i that answers with Addr1
GoodResponse(i, ipv6) ==
  dns_hdr(RESOLV_ENCODE_INDEX(i), FlagsResponse, FlagsRA, 1, 1)
  \o question_rr(host_example, QType(ipv6), DNS_CLASS_IN)
  \o answer_rr(NamePtr, QType(ipv6), DNS_CLASS_IN, AddrLen(ipv6), Addr1(ipv6))

\* the same response under an ID that is 256 above the one the question for
\* entry i was sent with
AliasedResponse(i, ipv6) ==
  dns_hdr((RESOLV_ENCODE_INDEX(i) + 256) % 65536, FlagsResponse, FlagsRA, 1, 1)
  \o question_rr(host_example, QType(ipv6), DNS_CLASS_IN)
  \o answer_rr(NamePtr, QType(ipv6), DNS_CLASS_IN, AddrLen(ipv6), Addr1(ipv6))

\* another address a server answers with
Addr2(ipv6) ==
  IF ipv6 THEN <<32,1,13,184, 0,0,0,0, 0,0,0,0, 0,0,0,2>> ELSE <<192,0,2,2>>

\* a response with three answer records: a CNAME record, an address record
\* with Addr1 and an address record with Addr2
SeveralAnswers(i, ipv6) ==
  dns_hdr(RESOLV_ENCODE_INDEX(i), FlagsResponse, FlagsRA, 1, 3)
  \o question_rr(host_example, QType(ipv6), DNS_CLASS_IN)
  \o answer_rr(NamePtr, DNS_TYPE_CNAME, DNS_CLASS_IN, 2, NamePtr)
  \o answer_rr(NamePtr, QType(ipv6), DNS_CLASS_IN, AddrLen(ipv6), Addr1(ipv6))
  \o answer_rr(NamePtr, QType(ipv6), DNS_CLASS_IN, AddrLen(ipv6), Addr2(ipv6))

\* name error without answer records, as servers send it
NameErrorEmpty(i, ipv6) ==
  dns_hdr(RESOLV_ENCODE_INDEX(i), FlagsResponse, FlagsNameError, 1, 0)
  \o question_rr(host_example, QType(ipv6), DNS_CLASS_IN)

\* name error that carries a record
NameErrorWithAnswer(i, ipv6) ==
  dns_hdr(RESOLV_ENCODE_INDEX(i), FlagsResponse, FlagsNameError, 1, 1)
  \o question_rr(host_example, QType(ipv6), DNS_CLASS_IN)
  \o answer_rr(NamePtr, DNS_TYPE_CNAME, DNS_CLASS_IN, 2, NamePtr)

\* a reply whose only record is a CNAME
CnameResponse(i, ipv6) ==
  dns_hdr(RESOLV_ENCODE_INDEX(i), FlagsResponse, FlagsRA, 1, 1)
  \o question_rr(host_example, QType(ipv6), DNS_CLASS_IN)
  \o answer_rr(NamePtr, DNS_TYPE_CNAME, DNS_CLASS_IN, 2, NamePtr)

\* a reply without error and without answers
EmptyResponse(i, ipv6) ==
  dns_hdr(RESOLV_ENCODE_INDEX(i), FlagsResponse, FlagsRA, 1, 0)
  \o question_rr(host_example, QType(ipv6), DNS_CLASS_IN)

\* a reply that announces one answer and ends after the header
TruncatedResponse(i) ==
  dns_hdr(RESOLV_ENCODE_INDEX(i), FlagsResponse, FlagsRA, 0, 1)

\* a request with one question, as an mDNS peer sends it
MdnsRequest(name, ipv6) ==
  dns_hdr(0, 0, 0, 1, 0) \o question_rr(name, QType(ipv6), DNS_CLASS_IN)

\* a request for the records of any type
MdnsAnyRequest(name) ==
  dns_hdr(0, 0, 0, 1, 0) \o question_rr(name, DNS_TYPE_ANY, DNS_CLASS_IN)

\* the datagrams delivered to newdata in one build
DatagramSet(ipv6) ==
  {GoodResponse(i, ipv6) : i \in {0, 1, RESOLV_ENTRIES}}
  \cup {NameErrorEmpty(0, ipv6), NameErrorWithAnswer(0, ipv6), CnameResponse(0, ipv6),
        EmptyResponse(0, ipv6), TruncatedResponse(1), AliasedResponse(0, ipv6),
        SeveralAnswers(0, ipv6)}
  \cup {MdnsRequest(contiki_local, ipv6), MdnsRequest(host_example, ipv6),
        MdnsAnyRequest(contiki_local), MdnsAnyRequest(host_example)}

DatagramsIPv4 == DatagramSet(FALSE)
DatagramsIPv6 == DatagramSet(TRUE)
Datagrams(ipv6) == IF ipv6 THEN DatagramsIPv6 ELSE DatagramsIPv4

\* where a datagram comes from: the mDNS port or a port of the peer's choice
Peer(ipv6) == IF ipv6 THEN <<254,128,0,0, 0,0,0,0, 0,0,0,0, 0,0,0,9>> ELSE <<192,0,2,9>>
Sources(ipv6) == {[addr |-> Peer(ipv6), port |-> MDNS_PORT],
                  [addr |-> Peer(ipv6), port |-> MDNS_PORT + 1]}

-----------------------------------------------------------------------------
(* Bookkeeping of the model                                                *)

CountSlot(seq, i) == Cardinality({k \in 1..Len(seq) : seq[k].slot = i})

\* last: the operation, its argument, the slot resolv_query chose, the
\* datagram given to newdata; before: the state the entry holding the name
\* had when resolv_query was called (STATE_UNUSED when no entry held it);
\* follows: resolv_lookup came right after resolv_query of the same argument
\* (before is then that call's)
NoOp == [op |-> "none", name |-> <<>>, slot |-> 0 - 1, pkt |-> <<>>,
         before |-> STATE_UNUSED, follows |-> FALSE]

\* the state of the entry of tbl that holds name, STATE_UNUSED when none does
StateOf(tbl, name) ==
  IF \E j \in Slots : tbl[j].state # STATE_UNUSED /\ tbl[j].name = name
  THEN tbl[CHOOSE j \in Slots : tbl[j].state # STATE_UNUSED /\ tbl[j].name = name].state
  ELSE STATE_UNUSED

-----------------------------------------------------------------------------
(* State machine                                                           *)

\* the state with table tbl and sequence counter seq, nothing sent or
\* notified yet, explored within the bounds lim
Start(tbl, seq, lim) ==
  /\ UIP_CONF_LOOPBACK_INTERFACE = FALSE
  /\ names = tbl
  /\ seqno = seq
  /\ resolv_default_dns_server = DefaultServer(UIP_CONF_IPV6)
  /\ sent = <<>>
  /\ found = <<>>
  /\ ret = NULL
  /\ last = NoOp
  /\ nfound = [i \in Slots |-> 0]
  /\ nsent = [i \in Slots |-> 0]
  /\ answered = [i \in Slots |-> FALSE]
  /\ nqueries = 0
  /\ nscans = 0
  /\ limit = lim

\* PROCESS_THREAD(resolv_process): memset(names, 0, sizeof(names)); seqno is
\* a zero-initialised static.  Few names, any number of scans.
Init ==
  /\ UIP_CONF_IPV6 \in BOOLEAN
  /\ Start([i \in Slots |-> EmptyEntry(UIP_CONF_IPV6)], 0,
           [queries |-> MaxQueries, scans |-> 0, anyscans |-> TRUE, names |-> FewNames])

\* the table after resolv_query has been called for the names of
\* FullNames in turn, the first of them seq0 + 1 times
FullTable(ipv6, seq0) ==
  [i \in Slots |-> query_entry(EmptyEntry(ipv6), FullNames[i + 1], (seq0 + i) % 256)]

\* The program after those calls, with the sequence counter fresh (the
\* first name queried once) or about to wrap (the first name queried
\* WrapBase + 1 times).  All names, few scans.
InitFull ==
  /\ UIP_CONF_IPV6 \in BOOLEAN
  /\ \E seq0 \in {0, WrapBase} :
       Start(FullTable(UIP_CONF_IPV6, seq0), (seq0 + RESOLV_ENTRIES) % 256,
             [queries |-> MaxFullQueries, scans |-> MaxFullScans, anyscans |-> FALSE,
              names |-> QueryNames])

Config == <<UIP_CONF_IPV6, UIP_CONF_LOOPBACK_INTERFACE, resolv_default_dns_server>>

\* void resolv_query(const char *name)
resolv_query(name) ==
  /\ nqueries < limit.queries
  /\ name \in limit.names
  /\ LET n == resolv_query_name(name)
         i == query_slot(names, n, seqno, 0, 0, 0)
     IN  /\ names' = [names EXCEPT ![i] = query_entry(@, n, seqno)]
         /\ seqno' = (seqno + 1) % 256
         /\ nfound' = [nfound EXCEPT ![i] = 0]
         /\ nsent' = [nsent EXCEPT ![i] = 0]
         /\ answered' = [answered EXCEPT ![i] = FALSE]
         /\ last' = [NoOp EXCEPT !.op = "resolv_query", !.name = name, !.slot = i,
                                 !.before = StateOf(names, n)]
  /\ nqueries' = nqueries + 1
  /\ sent' = <<>>
  /\ found' = <<>>
  /\ ret' = NULL
  /\ UNCHANGED <<nscans, limit>>
  /\ UNCHANGED Config

\* uip_ipaddr_t *resolv_lookup(const char *name)
resolv_lookup(name) ==
  /\ ret' = lookup_value(names, name, UIP_CONF_LOOPBACK_INTERFACE, UIP_CONF_IPV6)
  /\ last' = [NoOp EXCEPT !.op = "resolv_lookup", !.name = name,
                          !.follows = (last.op = "resolv_query" /\ last.name = name),
                          !.before = IF last.op = "resolv_query" /\ last.name = name
                                     THEN last.before ELSE STATE_UNUSED]
  /\ sent' = <<>>
  /\ found' = <<>>
  /\ UNCHANGED <<names, seqno, nfound, nsent, answered, nqueries, nscans, limit>>
  /\ UNCHANGED Config

\* mutant: the scan starts at the second entry
check_entries_from_second ==
  /\ limit.anyscans \/ nscans < limit.scans
  /\ nscans' = IF limit.anyscans THEN nscans ELSE nscans + 1
  /\ \E r \in {check_entries_loop(1, [names |-> names, sent |-> <<>>, found |-> <<>>],
                                    resolv_default_dns_server, UIP_CONF_IPV6)} :
         /\ names' = r.names
         /\ sent' = r.sent
         /\ found' = r.found
         /\ nfound' = [i \in Slots |-> nfound[i] + CountSlot(r.found, i)]
         /\ nsent' = [i \in Slots |-> nsent[i] + CountSlot(r.sent, i)]
  /\ last' = [NoOp EXCEPT !.op = "check_entries"]
  /\ ret' = NULL
  /\ UNCHANGED <<seqno, answered, nqueries, limit>>
  /\ UNCHANGED Config

\* static void check_entries(void), run on uip_poll()
check_entries ==
  /\ limit.anyscans \/ nscans < limit.scans
  /\ nscans' = IF limit.anyscans THEN nscans ELSE nscans + 1
  /\ \E r \in {check_entries_loop(0, [names |-> names, sent |-> <<>>, found |-> <<>>],
                                    resolv_default_dns_server, UIP_CONF_IPV6)} :
         /\ names' = r.names
         /\ sent' = r.sent
         /\ found' = r.found
         /\ nfound' = [i \in Slots |-> nfound[i] + CountSlot(r.found, i)]
         /\ nsent' = [i \in Slots |-> nsent[i] + CountSlot(r.sent, i)]
  /\ last' = [NoOp EXCEPT !.op = "check_entries"]
  /\ ret' = NULL
  /\ UNCHANGED <<seqno, answered, nqueries, limit>>
  /\ UNCHANGED Config

\* the possible effects of newdata on datagram buf
newdata_outcomes(tbl, buf, ipv6) ==
  LET i == RESOLV_DECODE_INDEX(U16(Rd(buf, 0), Rd(buf, 1)))
      parsed == /\ ValidIndex(i)
                /\ tbl[i].state = STATE_ASKING
                /\ ~NoAnswers(Rd(buf, 7))
                /\ Rd(buf, 3) % (DNS_FLAG2_ERR_MASK + 1) = 0
      answers == IF parsed
                 THEN AnswerOutcomes(buf, skip_questions(buf, SIZEOF_DNS_HDR, Rd(buf, 5)),
                                     Rd(buf, 7), ipv6)
                 ELSE {NULL}
  IN  {newdata_response(tbl, buf, a) : a \in answers}

\* the questions of requests: for this host's name with the three types the
\* responder knows and for another name; one or two of them in a request
Questions ==
  {question_rr(contiki_local, t, DNS_CLASS_IN) : t \in {DNS_TYPE_ANY, DNS_TYPE_A, DNS_TYPE_AAAA}}
  \cup {question_rr(host_example, DNS_TYPE_ANY, DNS_CLASS_IN)}
QuestionLists == {<<q>> : q \in Questions} \cup {<<q, r>> : q, r \in Questions}

RECURSIVE Concat(_)
Concat(ss) == IF ss = <<>> THEN <<>> ELSE Head(ss) \o Concat(Tail(ss))

\* a request that declares numquestions questions and numanswers answers
\* and carries the questions qs
Request(numquestions, numanswers, qs) ==
  dns_hdr(0, 0, 0, numquestions, numanswers) \o Concat(qs)

\* requests that declare the questions they carry or none, and no answer,
\* one answer or 256 answers
ResponderRequests ==
  UNION {{Request(nq, na, qs) : nq \in {0, Len(qs)}, na \in {0, 1, 256}} :
           qs \in QuestionLists}

\* newdata_request, which reads the datagram and its source only, tabulated
\* over the requests delivered
RequestOutcomes ==
  [ipv6 \in BOOLEAN |->
     [buf \in {b \in Datagrams(ipv6) \cup ResponderRequests : IsRequest(b)} |->
        [src \in Sources(ipv6) |-> newdata_request(buf, src, ipv6)]]]

\* static void newdata(void), run on uip_newdata() with the datagram in
\* uip_appdata; only the request path reads where the datagram came from
newdata(buf) ==
  /\ IF IsRequest(buf)
     THEN /\ \E src \in Sources(UIP_CONF_IPV6) :
               sent' \in RequestOutcomes[UIP_CONF_IPV6][buf][src]
          /\ found' = <<>>
          /\ UNCHANGED <<names, nfound, answered>>
     ELSE /\ \E r \in newdata_outcomes(names, buf, UIP_CONF_IPV6) :
               /\ names' = r.names
               /\ found' = r.found
               /\ nfound' = [i \in Slots |-> nfound[i] + CountSlot(r.found, i)]
               /\ answered' = [i \in Slots |-> answered[i] \/ r.names[i] # names[i]]
          /\ sent' = <<>>
  /\ last' = [NoOp EXCEPT !.op = "newdata", !.pkt = buf]
  /\ ret' = NULL
  /\ UNCHANGED <<seqno, nsent, nqueries, nscans, limit>>
  /\ UNCHANGED Config

Next ==
  \/ \E buf \in Datagrams(UIP_CONF_IPV6) : newdata(buf)
  \/ \E name \in QueryNames : resolv_query(name)
  \/ \E name \in LookupNames : resolv_lookup(name)
  \/ check_entries

Spec == Init /\ [][Next]_vars

\* from the full table
SpecFull == InitFull /\ [][Next]_vars

\* from either start
SpecAll == (Init \/ InitFull) /\ [][Next]_vars

\* The program after resolv_query has been called for the four names of
\* FullNames, when the application makes no further call: every entry is New.
InitPending ==
  /\ UIP_CONF_IPV6 \in BOOLEAN
  /\ Start(FullTable(UIP_CONF_IPV6, 0), RESOLV_ENTRIES,
           [queries |-> 0, scans |-> 0, anyscans |-> TRUE, names |-> {}])

\* the response that may arrive meanwhile: for the second entry
PendingDatagrams(ipv6) == {GoodResponse(1, ipv6)}

\* the two handlers of the event loop
NextPending ==
  \/ \E buf \in PendingDatagrams(UIP_CONF_IPV6) : newdata(buf)
  \/ check_entries

\* uip_poll() keeps coming: check_entries is run again and again
SpecPending == InitPending /\ [][NextPending]_vars /\ WF_vars(check_entries)

\* the build with UIP_CONF_LOOPBACK_INTERFACE set, from process start, where
\* the application also looks up "localhost"
InitLoopback ==
  /\ UIP_CONF_IPV6 \in BOOLEAN
  /\ UIP_CONF_LOOPBACK_INTERFACE = TRUE
  /\ names = [i \in Slots |-> EmptyEntry(UIP_CONF_IPV6)]
  /\ seqno = 0
  /\ resolv_default_dns_server = DefaultServer(UIP_CONF_IPV6)
  /\ sent = <<>>
  /\ found = <<>>
  /\ ret = NULL
  /\ last = NoOp
  /\ nfound = [i \in Slots |-> 0]
  /\ nsent = [i \in Slots |-> 0]
  /\ answered = [i \in Slots |-> FALSE]
  /\ nqueries = 0
  /\ nscans = 0
  /\ limit = [queries |-> 1, scans |-> 0, anyscans |-> TRUE, names |-> {host_example}]

NextLoopback ==
  \/ Next
  \/ resolv_lookup(localhost)

SpecLoopback == InitLoopback /\ [][NextLoopback]_vars

\* The program after resolv_query has been called for the four names of
\* FullNames, when the application goes on to ask once for "b.local", a
\* name the table does not hold.
b_local == <<"b", ".">> \o local_suffix
InitReuse ==
  /\ UIP_CONF_IPV6 \in BOOLEAN
  /\ Start(FullTable(UIP_CONF_IPV6, 0), RESOLV_ENTRIES,
           [queries |-> 1, scans |-> 0, anyscans |-> TRUE, names |-> {b_local}])

NextReuse ==
  \/ \E buf \in PendingDatagrams(UIP_CONF_IPV6) : newdata(buf)
  \/ check_entries
  \/ resolv_query(b_local)

SpecReuse == InitReuse /\ [][NextReuse]_vars

\* the responder alone: requests arrive and nothing else happens
InitResponder ==
  /\ UIP_CONF_IPV6 \in BOOLEAN
  /\ Start([i \in Slots |-> EmptyEntry(UIP_CONF_IPV6)], 0,
           [queries |-> 0, scans |-> 0, anyscans |-> FALSE, names |-> {}])

NextResponder == \E buf \in ResponderRequests : newdata(buf)

SpecResponder == InitResponder /\ [][NextResponder]_vars

\* names an application may ask for: with one and two trailing dots, of one
\* label that ends in the letters of "local", and the one label "local"
alocal == <<"a">> \o local_suffix
NamingNames ==
  {host_example, host_example \o <<".">>, host_example \o <<".", ".">>,
   contiki_local, contiki_local_dot, alocal, local_suffix}

\* from process start, with those names, two calls of resolv_query and one scan
InitNaming ==
  /\ UIP_CONF_IPV6 \in BOOLEAN
  /\ Start([i \in Slots |-> EmptyEntry(UIP_CONF_IPV6)], 0,
           [queries |-> 2, scans |-> 1, anyscans |-> FALSE, names |-> NamingNames])

NextNaming ==
  \/ Next
  \/ \E name \in NamingNames : resolv_query(name)
  \/ \E name \in NamingNames : resolv_lookup(name)

SpecNaming == InitNaming /\ [][NextNaming]_vars

-----------------------------------------------------------------------------
(* The wire codec on its own                                               *)

\* n times the character c
Rep(c, n) == [k \in 1..n |-> c]

\* names of one label of every length from the empty name to the longest
\* name an entry can hold, names of two labels of every pair of lengths,
\* and names of three labels
CodecNames ==
  {Rep("a", n) : n \in 0..RESOLV_CONF_MAX_DOMAIN_NAME_SIZE}
  \cup {Rep("a", n[1]) \o <<".">> \o Rep("b", n[2]) :
          n \in {m \in (1..RESOLV_CONF_MAX_DOMAIN_NAME_SIZE) \X (1..RESOLV_CONF_MAX_DOMAIN_NAME_SIZE) :
                   m[1] + m[2] + 1 <= RESOLV_CONF_MAX_DOMAIN_NAME_SIZE}}
  \cup {Rep("a", n) \o <<".">> \o Rep("b", n) \o <<".">> \o Rep("c", n) : n \in 1..10}
  \cup {host_example, contiki_local}

\* first bytes of a name field: lengths, the two reserved patterns 01 and 10
\* of the top bits, and pointers
FirstBytes == {1, 2, 63, 64, 65, 127, 128, 129, 191, 192, 193, 255}

\* a datagram whose first name field starts with byte b: the b bytes a label
\* of that length would need follow it, then a zero
NameField(b) ==
  dns_hdr(RESOLV_ENCODE_INDEX(0), FlagsResponse, FlagsRA, 1, 0)
  \o <<b>> \o [k \in 1..b |-> Ord("a")] \o <<0, 0, DNS_TYPE_A, 0, DNS_CLASS_IN>>

InitCodec ==
  /\ UIP_CONF_IPV6 \in BOOLEAN
  /\ Start([i \in Slots |-> EmptyEntry(UIP_CONF_IPV6)], 0,
           [queries |-> 0, scans |-> 0, anyscans |-> FALSE, names |-> {}])

\* encode_name(query, name) into the question check_entries builds, then
\* parse_name(query) on the same buffer from the same start
encode_then_parse(name) ==
  LET e == [EmptyEntry(UIP_CONF_IPV6) EXCEPT !.name = name]
      buf == dns_question(0, e, UIP_CONF_IPV6)
  IN  /\ last' = [NoOp EXCEPT !.op = "encode_name", !.name = name, !.pkt = buf]
      /\ ret' = [query |-> SIZEOF_DNS_HDR + Len(encode_name(name)),
                 nameptr |-> parse_name(buf, SIZEOF_DNS_HDR)]
      /\ UNCHANGED <<names, seqno, sent, found, nfound, nsent, answered,
                     nqueries, nscans, limit>>
      /\ UNCHANGED Config

\* the skip of the first name field of a response, as both loops of newdata do it
skip_field(b) ==
  /\ last' = [NoOp EXCEPT !.op = "skip_name", !.pkt = NameField(b)]
  /\ ret' = [query |-> SIZEOF_DNS_HDR,
             nameptr |-> skip_name(NameField(b), SIZEOF_DNS_HDR)]
  /\ UNCHANGED <<names, seqno, sent, found, nfound, nsent, answered,
                 nqueries, nscans, limit>>
  /\ UNCHANGED Config

\* the ID check_entries writes for slot i, and the index newdata reads from it
encode_then_decode(i) ==
  /\ last' = [NoOp EXCEPT !.op = "RESOLV_ENCODE_INDEX", !.slot = i]
  /\ ret' = [query |-> RESOLV_ENCODE_INDEX(i),
             nameptr |-> RESOLV_DECODE_INDEX(RESOLV_ENCODE_INDEX(i))]
  /\ UNCHANGED <<names, seqno, sent, found, nfound, nsent, answered,
                 nqueries, nscans, limit>>
  /\ UNCHANGED Config

NextCodec ==
  \/ \E name \in CodecNames : encode_then_parse(name)
  \/ \E b \in FirstBytes : skip_field(b)
  \/ \E i \in Slots : encode_then_decode(i)

SpecCodec == InitCodec /\ [][NextCodec]_vars

-----------------------------------------------------------------------------
(* Properties                                                              *)

\* a name without its trailing dots
Normalized(n) ==
  LET k == CHOOSE k \in 0..Len(n) :
             /\ \A j \in (k + 1)..Len(n) : n[j] = "."
             /\ k = 0 \/ n[k] # "."
  IN  SubSeq(n, 1, k)

\* the slots whose entry holds name
Holding(tbl, name) == {i \in Slots : tbl[i].state # STATE_UNUSED /\ tbl[i].name = name}

\* C1: resolv_lookup(n) called right after resolv_query(n), with nothing
\* handled in between, returns NULL, whatever the table held before.
C1_LookupAfterQueryIsNull ==
  (last.op = "resolv_lookup" /\ last.follows) => ret = NULL

\* C1 witness: the lookup follows a query of a name whose entry was Done.
C1_Witness ==
  /\ last.op = "resolv_lookup"
  /\ last.follows
  /\ last.before = STATE_DONE
  /\ ret = NULL

\* C2: resolv_lookup returns the address of the entry that holds the
\* normalized name and is Done, returns NULL when there is no such entry,
\* and leaves the table alone.
C2_LookupIffDone ==
  /\ [](last.op = "resolv_lookup" =>
          LET D == {i \in Holding(names, Normalized(last.name)) :
                      names[i].state = STATE_DONE}
          IN  IF D = {} THEN ret = NULL
              ELSE ret # NULL /\ \E i \in D : ret = names[i].ipaddr)
  /\ [][last'.op = "resolv_lookup" => names' = names /\ seqno' = seqno]_vars

\* C2 witness: a lookup that returned an address while another entry is not Done.
C2_Witness ==
  /\ last.op = "resolv_lookup"
  /\ ret = Addr1(UIP_CONF_IPV6)
  /\ \E i \in Slots : names[i].state \in {STATE_NEW, STATE_ASKING, STATE_ERROR}

\* C3: IPv4 build, end to end: the first scan after resolv_query("host.example")
\* on the empty table sends one type-A question with the slot's ID to the
\* configured server; a reply with that ID, no error and one answer of type
\* A, class IN, length 4 makes the entry Done, resolv_lookup returns the
\* answer's address and one notification is made.
C3_EndToEndIPv4 ==
  [][~UIP_CONF_IPV6 =>
       /\ (/\ last.op = "resolv_query" /\ last.name = host_example /\ nqueries = 1
           /\ last'.op = "check_entries")
          => sent' = <<[slot |-> last.slot,
                        data |-> dns_hdr(ID_OFFSET + last.slot, DNS_FLAG1_RD, 0, 1, 0)
                                 \o question_rr(host_example, DNS_TYPE_A, DNS_CLASS_IN),
                        addr |-> resolv_default_dns_server,
                        port |-> DNS_PORT]>>
       /\ \A i \in Slots :
            (/\ last'.op = "newdata" /\ last'.pkt = GoodResponse(i, FALSE)
             /\ names[i].state = STATE_ASKING /\ names[i].name = host_example)
            => /\ names'[i].state = STATE_DONE
               /\ lookup_value(names', host_example, FALSE, FALSE) = Addr1(FALSE)
               /\ Len(found') = 1
               /\ found'[1].ipaddr = Addr1(FALSE)]_vars

\* age of an entry: the sequence counter minus the entry's number, modulo 256
Age(seq, eseq) == (seq - eseq) % 256

\* C4: on a full table that does not hold the name, resolv_query overwrites
\* the entry of largest age modulo 256, and no other entry.
C4_EvictsOldestModulo256 ==
  [][(/\ last'.op = "resolv_query"
      /\ \A j \in Slots : names[j].state # STATE_UNUSED
      /\ Holding(names, Normalized(last'.name)) = {})
     => /\ \A j \in Slots :
             Age(seqno, names[last'.slot].seqno) >= Age(seqno, names[j].seqno)
        /\ names'[last'.slot].name = Normalized(last'.name)
        /\ \A j \in Slots : j # last'.slot => names'[j] = names[j]]_vars

\* C5: no two entries in use hold the same name.
C5_NamesAreUnique ==
  \A i, j \in Slots :
    (i # j /\ names[i].state # STATE_UNUSED /\ names[j].state # STATE_UNUSED)
      => names[i].name # names[j].name

\* C5 witness: the table is full and a name it already holds was queried again.
C5_Witness ==
  /\ last.op = "resolv_query"
  /\ last.before # STATE_UNUSED
  /\ last.slot > 0
  /\ \A i \in Slots : names[i].state # STATE_UNUSED

\* C6: resolv_query for a name whose entry is still New or Asking leaves
\* exactly one entry with that name, carrying the sequence number of this call.
C6_RequeryRefreshes ==
  [][(last'.op = "resolv_query" /\ last'.before \in {STATE_NEW, STATE_ASKING}) =>
       LET H == Holding(names', Normalized(last'.name))
       IN  Cardinality(H) = 1 /\ \A i \in H : names'[i].seqno = seqno]_vars

\* C6 witness: a second call for a pending name, after another name was queried.
C6_Witness ==
  /\ last.op = "resolv_query"
  /\ last.before \in {STATE_NEW, STATE_ASKING}
  /\ \E i \in Slots : i # last.slot /\ names[i].state # STATE_UNUSED
                        /\ names[last.slot].seqno # (names[i].seqno + 1) % 256

\* C7: after resolv_query(name) an entry holds the normalized name in state
\* New with the sequence number the counter had before the call, and the
\* counter has advanced by one modulo 256.
C7_QueryPostcondition ==
  [][last'.op = "resolv_query" =>
       /\ \E i \in Slots : /\ names'[i].name = Normalized(last'.name)
                            /\ names'[i].state = STATE_NEW
                            /\ names'[i].seqno = seqno
       /\ seqno' = (seqno + 1) % 256]_vars

\* C7 witness: the call on which the counter wrapped from 255 to 0, the
\* name replacing another one in the full table.
C7_Witness ==
  /\ last.op = "resolv_query"
  /\ last.before = STATE_UNUSED
  /\ seqno = 0
  /\ names[last.slot].seqno = 255

\* C8: an entry that no response has been applied to is never Done, is
\* Asking only with retries below the maximum of its kind, is Error only with
\* retries equal to that maximum, and has had no notification while New or
\* Asking and exactly one once Error; the notifications of a scan carry no
\* address and name entries the scan has put in Error.
C8_RetryExhaustion ==
  /\ \A i \in Slots : ~answered[i] =>
       LET e == names[i]
           max == IF e.is_mdns = 1 THEN RESOLV_CONF_MAX_MDNS_RETRIES
                  ELSE RESOLV_CONF_MAX_RETRIES
       IN  /\ e.state # STATE_DONE
           /\ e.state \in {STATE_NEW, STATE_ASKING} => nfound[i] = 0
           /\ e.state = STATE_ASKING => e.retries < max
           /\ e.state = STATE_ERROR => e.retries = max /\ nfound[i] = 1
  /\ last.op = "check_entries" =>
       \A k \in 1..Len(found) :
         /\ found[k].ipaddr = NULL
         /\ names[found[k].slot].state = STATE_ERROR
         /\ names[found[k].slot].name = found[k].name

\* C8 witness: a unicast and an mDNS entry have both run out of retries
\* without a response, each with one notification.
C8_Witness ==
  \E i, j \in Slots :
    /\ ~answered[i] /\ names[i].state = STATE_ERROR /\ names[i].is_mdns = 0
    /\ names[i].retries = RESOLV_CONF_MAX_RETRIES /\ nfound[i] = 1
    /\ ~answered[j] /\ names[j].state = STATE_ERROR /\ names[j].is_mdns = 1
    /\ names[j].retries = RESOLV_CONF_MAX_MDNS_RETRIES /\ nfound[j] = 1

\* C9: one run of check_entries sends at most one question.
C9_OneQuestionPerScan ==
  last.op = "check_entries" => Len(sent) <= 1

\* C9 witness: a scan sent a question and left another entry waiting in New.
C9_Witness ==
  /\ last.op = "check_entries"
  /\ Len(sent) = 1
  /\ \E i \in Slots : names[i].state = STATE_NEW

\* C10: a response with a valid ID and a non-zero response code for an
\* Asking entry puts the entry in Error with one notification without
\* address, whatever its answer count, and no question is sent for an entry
\* in Error.
C10_ErrorResponse ==
  [][/\ \A i \in Slots :
          (/\ last'.op = "newdata"
           /\ U16(last'.pkt[1], last'.pkt[2]) = ID_OFFSET + i
           /\ last'.pkt[4] % 16 # 0
           /\ names[i].state = STATE_ASKING)
          => /\ names'[i].state = STATE_ERROR
             /\ found' = <<[slot |-> i, name |-> names[i].name, ipaddr |-> NULL]>>
     /\ \A i \in Slots :
          names[i].state = STATE_ERROR => \A k \in 1..Len(sent') : sent'[k].slot # i]_vars

\* the transaction ID and the answer count of a datagram, as 16-bit numbers
IdOf(pkt) == U16(pkt[1], pkt[2])
AnswerCountOf(pkt) == U16(pkt[7], pkt[8])

\* C11: a response whose ID names an entry that is not Asking, or whose
\* answer count is zero, changes no entry and makes no notification.
C11_StaleOrEmptyDiscarded ==
  [][(/\ last'.op = "newdata"
      /\ ~IsRequest(last'.pkt)
      /\ \/ AnswerCountOf(last'.pkt) = 0
         \/ \E i \in Slots : /\ IdOf(last'.pkt) = ID_OFFSET + i
                              /\ names[i].state # STATE_ASKING)
     => names' = names /\ found' = <<>>]_vars

\* C11 witness: a response without answers and without an error code has
\* arrived for entry 0, which is Asking.
C11_Witness ==
  /\ last.op = "newdata"
  /\ last.pkt = EmptyResponse(0, UIP_CONF_IPV6)
  /\ names[0].state = STATE_ASKING
  /\ found = <<>>

\* C12: a response whose ID is not 61616 + i for an index i of the table
\* is discarded: no entry changes and no notification is made.
C12_ForeignIdDiscarded ==
  [][(/\ last'.op = "newdata"
      /\ ~IsRequest(last'.pkt)
      /\ \A i \in Slots : IdOf(last'.pkt) # ID_OFFSET + i)
     => names' = names /\ found' = <<>>]_vars

\* C14: for every name from the empty name to the longest one, parse_name
\* from the start of what encode_name wrote ends at the position encode_name
\* returned, which is the byte after the terminating zero.
C14_EncodeParseRoundTrip ==
  last.op = "encode_name" =>
    /\ ret.nameptr = ret.query
    /\ Rd(last.pkt, ret.query - 1) = 0

\* C14 witness: a name of the greatest length has been encoded and parsed.
C14_Witness ==
  /\ last.op = "encode_name"
  /\ Len(last.name) = RESOLV_CONF_MAX_DOMAIN_NAME_SIZE
  /\ ret.nameptr = SIZEOF_DNS_HDR + RESOLV_CONF_MAX_DOMAIN_NAME_SIZE + 2

\* C15: a name field is skipped as a compression pointer, by two bytes,
\* exactly when both of the top two bits of its first byte are set.
C15_PointerIffBothBits ==
  last.op = "skip_name" =>
    (ret.nameptr = ret.query + 2 <=> Rd(last.pkt, ret.query) >= 192)

\* does the response path of newdata, on datagram buf with table tbl, move
\* its cursor to an offset at or beyond the length of the datagram
ReadsOutside(tbl, buf, ipv6) ==
  LET i == RESOLV_DECODE_INDEX(IdOf(buf))
      p == skip_questions(buf, SIZEOF_DNS_HDR, Rd(buf, 5))
  IN  /\ ValidIndex(i)
      /\ tbl[i].state = STATE_ASKING
      /\ ~NoAnswers(Rd(buf, 7))
      /\ Rd(buf, 3) % (DNS_FLAG2_ERR_MASK + 1) = 0
      /\ \/ p = OOB
         \/ scan_answers(buf, p, Rd(buf, 7), ipv6) = Fault

\* C13: while a response is parsed the cursor never reaches an offset at or
\* beyond the length of the datagram, however short the datagram is for
\* the counts and lengths it declares.
C13_ParsingStaysInside ==
  [][(last'.op = "newdata" /\ ~IsRequest(last'.pkt))
     => ~ReadsOutside(names, last'.pkt, UIP_CONF_IPV6)]_vars

\* the addresses the responder is to answer with
LocalAddrs(ipv6) == IF ipv6 THEN uip_ds6_if_addr_list ELSE <<uip_hostaddr>>

\* C16: a request of type ANY and class IN for "<hostname>.local" makes the
\* responder send exactly one datagram, with the response and authoritative
\* flags set, no question and one answer record for each local address; a
\* request for another name makes it send nothing.
C16_MdnsResponder ==
  last.op = "newdata" =>
    /\ last.pkt = MdnsAnyRequest(contiki_local) =>
         /\ Len(sent) = 1
         /\ Rd(sent[1].data, 2) = DNS_FLAG1_RESPONSE + DNS_FLAG1_AUTHORATIVE
         /\ U16(Rd(sent[1].data, 4), Rd(sent[1].data, 5)) = 0
         /\ AnswerCountOf(sent[1].data) = Len(LocalAddrs(UIP_CONF_IPV6))
         /\ \A k \in 1..Len(LocalAddrs(UIP_CONF_IPV6)) :
              \E p \in 1..Len(sent[1].data) :
                SubSeq(sent[1].data, p, p + AddrLen(UIP_CONF_IPV6) - 1)
                  = LocalAddrs(UIP_CONF_IPV6)[k]
    /\ last.pkt \in {MdnsAnyRequest(host_example),
                      MdnsRequest(host_example, UIP_CONF_IPV6)} => sent = <<>>

\* C16 witness: the request of type ANY for this host's name has been
\* handled and a datagram has been sent.
C16_Witness ==
  /\ last.op = "newdata"
  /\ last.pkt = MdnsAnyRequest(contiki_local)
  /\ Len(sent) = 1
  /\ Len(sent[1].data) > SIZEOF_DNS_HDR

\* C17: in a build with the loopback interface, resolv_lookup("localhost")
\* returns the loopback address whatever the table holds, and the lookup of
\* every other name is answered from the table.
C17_LocalhostIsLoopback ==
  (last.op = "resolv_lookup" /\ UIP_CONF_LOOPBACK_INTERFACE) =>
    ret = IF Normalized(last.name) = localhost
          THEN loopback(UIP_CONF_IPV6)
          ELSE lookup_slot(names, Normalized(last.name), 0)

\* C18: a step that takes an entry from Asking to Done or to Error makes
\* exactly one notification for that entry, with the entry's name.
C18_OneNotificationPerOutcome ==
  [][\A i \in Slots :
       (names[i].state = STATE_ASKING /\ names'[i].state \in {STATE_DONE, STATE_ERROR})
       => /\ CountSlot(found', i) = 1
          /\ \A k \in 1..Len(found') : found'[k].slot = i => found'[k].name = names[i].name]_vars

\* C19: when scans keep coming and resolv_query is not called, every entry
\* that is New or Asking becomes Done or Error in the end, also when all
\* entries are pending at once and no response arrives.
C19_PendingEventuallySettles ==
  \A i \in Slots :
    (names[i].state \in {STATE_NEW, STATE_ASKING})
      ~> (names[i].state \in {STATE_DONE, STATE_ERROR})

\* C19 witness: all four entries were pending together and each has ended
\* in Error by retries alone, no response having been taken for any.
C19_Witness ==
  /\ \A i \in Slots : names[i].state = STATE_ERROR /\ ~answered[i]
  /\ \A i \in Slots : nsent[i] = MaxRetries(names[i]) /\ nfound[i] = 1

\* is the entry one the scan looks at
Pending(e) == e.state = STATE_NEW \/ e.state = STATE_ASKING

\* C20 as stated: in one scan only the first entry that is New or Asking is
\* acted on, and every entry after it is left as it was.
C20_OnlyFirstPendingActedOn ==
  [][last'.op = "check_entries" =>
       \A f \in Slots :
         (Pending(names[f]) /\ \A k \in Slots : k < f => ~Pending(names[k]))
         => \A j \in Slots : j > f => names'[j] = names[j]]_vars

\* C20 amended: in one scan the entries acted on are New or Asking entries
\* up to and including the one a question is sent for, and every entry
\* after that one is left as it was.
C20_NothingAfterTheQuestion ==
  [][last'.op = "check_entries" =>
       \A j \in Slots :
         names'[j] # names[j]
         => /\ Pending(names[j])
            /\ sent' # <<>> => j <= sent'[1].slot]_vars

\* C20 witness: a scan has passed over entry 0, which is waiting for its
\* timer, has sent the question of entry 1 and has left entry 2 New.
C20_Witness ==
  /\ last.op = "check_entries"
  /\ Len(sent) = 1 /\ sent[1].slot = 1
  /\ names[0].state = STATE_ASKING /\ names[0].tmr > 0
  /\ names[1].state = STATE_ASKING /\ names[1].retries = 0
  /\ names[2].state = STATE_NEW

\* the greatest number of retries of entry e, from the two configured maxima
RetryLimit(e) ==
  IF e.is_mdns # 0 THEN RESOLV_CONF_MAX_MDNS_RETRIES ELSE RESOLV_CONF_MAX_RETRIES

\* does a scan that comes to entry e send its question
Due(e) ==
  \/ e.state = STATE_NEW
  \/ e.state = STATE_ASKING /\ e.tmr = 1 /\ e.retries + 1 < RetryLimit(e)

\* does a scan of table tbl come to entry i: no entry before it is due
ActedOn(tbl, i) == \A k \in Slots : k < i => ~Due(tbl[k])

\* C21: a scan that acts on a New entry makes it Asking with retries 0 and
\* timer 1 and sends its question; one that acts on an Asking entry whose
\* timer runs out with retries left sets the timer to the new retries and
\* sends the question again; one that acts on an Asking entry whose timer
\* has not run out only decrements the timer and sends nothing for it.
C21_DriverSteps ==
  [][last'.op = "check_entries" =>
       \A i \in Slots :
         ActedOn(names, i) =>
           /\ names[i].state = STATE_NEW =>
                /\ names'[i] = [names[i] EXCEPT !.state = STATE_ASKING,
                                                 !.retries = 0, !.tmr = 1]
                /\ Len(sent') = 1 /\ sent'[1].slot = i
           /\ (names[i].state = STATE_ASKING /\ names[i].tmr = 1
                 /\ names[i].retries + 1 < RetryLimit(names[i])) =>
                /\ names'[i] = [names[i] EXCEPT !.retries = names[i].retries + 1,
                                                 !.tmr = names[i].retries + 1]
                /\ Len(sent') = 1 /\ sent'[1].slot = i
                /\ sent'[1].data = dns_question(i, names[i], UIP_CONF_IPV6)
           /\ (names[i].state = STATE_ASKING /\ names[i].tmr > 1) =>
                /\ names'[i] = [names[i] EXCEPT !.tmr = names[i].tmr - 1]
                /\ CountSlot(sent', i) = 0]_vars

\* C21 witness: a scan has sent the question of entry 0 for the third time
\* and set its timer to its retries, 2; the next scans will only decrement it.
C21_Witness ==
  /\ last.op = "check_entries"
  /\ names[0].state = STATE_ASKING /\ names[0].retries = 2 /\ names[0].tmr = 2
  /\ Len(sent) = 1 /\ sent[1].slot = 0
  /\ nsent[0] = 3

\* C22: on a full table that does not hold the name, when the sequence
\* counter is above the number of every entry (it has not wrapped since
\* they were numbered), resolv_query overwrites the entry of smallest
\* number and leaves every other entry as it was.
C22_EvictsSmallestSequence ==
  [][(/\ last'.op = "resolv_query"
      /\ \A j \in Slots : names[j].state # STATE_UNUSED
      /\ Holding(names, Normalized(last'.name)) = {}
      /\ \A j \in Slots : names[j].seqno < seqno)
     => \A s \in Slots :
          (\A j \in Slots : names[s].seqno <= names[j].seqno)
          => /\ names'[s].name = Normalized(last'.name)
             /\ names'[s].state = STATE_NEW
             /\ \A j \in Slots : j # s => names'[j] = names[j]]_vars

\* C22 witness: on the full table "d" has taken the place of the first
\* entry, and then "host.example", absent by then, the place of the second,
\* the entry of smallest number left, with the counter not wrapped.
C22_Witness ==
  /\ last.op = "resolv_query" /\ last.name = host_example
  /\ names[0].name = <<"d">> /\ names[1].name = host_example
  /\ names[1].state = STATE_NEW
  /\ \A j \in Slots : names[j].seqno < seqno
  /\ names[2].state # STATE_UNUSED /\ names[3].state # STATE_UNUSED

\* C23: a response with several answer records for an Asking entry gives
\* the entry the address of the first record, in the order of the datagram,
\* that has the address type asked for and class IN; a record before it
\* that does not match is passed over by its declared data length and the
\* records after it are not looked at.
C23_FirstMatchingAnswerWins ==
  [][(/\ last'.op = "newdata"
      /\ last'.pkt = SeveralAnswers(0, UIP_CONF_IPV6)
      /\ names[0].state = STATE_ASKING)
     => /\ names'[0].state = STATE_DONE
        /\ names'[0].ipaddr = Addr1(UIP_CONF_IPV6)
        /\ Len(found') = 1 /\ found'[1].ipaddr = Addr1(UIP_CONF_IPV6)]_vars

\* C24: every question sent for an entry goes to the mDNS group, port 5353,
\* when the entry's is_mdns is set and to the configured server, port 53,
\* when it is not, and its ID is 61616 plus the index of the entry.
C24_QuestionDestination ==
  last.op = "check_entries" =>
    \A k \in 1..Len(sent) :
      LET i == sent[k].slot
      IN  /\ i \in Slots
          /\ IdOf(sent[k].data) = ID_OFFSET + i
          /\ names[i].is_mdns # 0 =>
               /\ sent[k].addr = resolv_mdns_addr(UIP_CONF_IPV6)
               /\ sent[k].port = MDNS_PORT
          /\ names[i].is_mdns = 0 =>
               /\ sent[k].addr = resolv_default_dns_server
               /\ sent[k].port = DNS_PORT

\* C24 witness: one scan has sent the question of an mDNS entry in slot 1,
\* after an earlier scan sent that of the unicast entry in slot 0.
C24_Witness ==
  /\ last.op = "check_entries"
  /\ Len(sent) = 1 /\ sent[1].slot = 1
  /\ names[1].is_mdns # 0 /\ sent[1].port = MDNS_PORT
  /\ names[0].is_mdns = 0 /\ nsent[0] > 0

\* the characters of s after its last dot, all of s when it has none
RECURSIVE LastLabel(_)
LastLabel(s) ==
  IF \E k \in 1..Len(s) : s[k] = "."
  THEN LastLabel(Tail(s))
  ELSE s

\* C25: resolv_query sets is_mdns exactly when the last label of the name,
\* trailing dots removed, is "local".
C25_MdnsIffLastLabelLocal ==
  [][last'.op = "resolv_query" =>
       (names'[last'.slot].is_mdns # 0
          <=> LastLabel(Normalized(last'.name)) = local_suffix)]_vars

C26_StateTransitions ==
  [][\A i \in Slots :
       names'[i].state # names[i].state =>
         \/ /\ names'[i].state = STATE_NEW
            /\ last'.op = "resolv_query" /\ last'.slot = i
         \/ /\ names[i].state = STATE_NEW /\ names'[i].state = STATE_ASKING
            /\ last'.op = "check_entries"
         \/ /\ names[i].state = STATE_ASKING
            /\ names'[i].state \in {STATE_DONE, STATE_ERROR}
            /\ last'.op \in {"check_entries", "newdata"}]_vars

\* C26 witness: an entry that went from New to Asking and, its retries run
\* out, to Error has been made New again by resolv_query.
C26_Witness ==
  /\ last.op = "resolv_query"
  /\ last.before = STATE_ERROR
  /\ names[last.slot].state = STATE_NEW
  /\ names[last.slot].retries = MaxRetries(names[last.slot])

\* C27 as stated: in every state the retries of every entry are at most
\* the maximum of its kind.
C27_RetriesWithinLimit ==
  \A i \in Slots : names[i].retries <= RetryLimit(names[i])

\* C27 amended: in every state the retries of every entry that is not New
\* are at most the maximum of its kind.
C27_RetriesWithinLimitOnceAsked ==
  \A i \in Slots :
    names[i].state # STATE_NEW => names[i].retries <= RetryLimit(names[i])

\* C27 witness: the entry of "b.local", which took the place of a unicast
\* entry, and a unicast entry have both come to Error with their retries at
\* the maximum of their kinds.
C27_Witness ==
  /\ names[0].name = b_local /\ names[0].is_mdns # 0
  /\ names[0].state = STATE_ERROR
  /\ names[0].retries = RESOLV_CONF_MAX_MDNS_RETRIES
  /\ names[2].is_mdns = 0 /\ names[2].state = STATE_ERROR
  /\ names[2].retries = RESOLV_CONF_MAX_RETRIES

\* the question count of a datagram, as a 16-bit number
QuestionCountOf(pkt) == U16(pkt[5], pkt[6])

C29_IndexRoundTrip ==
  last.op = "RESOLV_ENCODE_INDEX" =>
    /\ ret.nameptr = last.slot
    /\ ret.query \in 0..65535
    /\ \A j \in Slots : j # last.slot => RESOLV_ENCODE_INDEX(j) # ret.query

\* C29 witness: the last index of the table has been encoded, as 61619,
\* and decoded.
C29_Witness ==
  /\ last.op = "RESOLV_ENCODE_INDEX"
  /\ last.slot = RESOLV_ENTRIES - 1
  /\ ret.query = ID_OFFSET + RESOLV_ENTRIES - 1

\* the address of the first usable answer record of response buf when the
\* answer loop stays inside the datagram: NULL when no record is usable,
\* Fault when the loop leaves the datagram
AnswerAddress(buf, ipv6) ==
  LET p == skip_questions(buf, SIZEOF_DNS_HDR, Rd(buf, 5))
  IN  IF p = OOB THEN Fault ELSE scan_answers(buf, p, Rd(buf, 7), ipv6)

\* the fields of entry e an application can observe
Outcome(e) == <<e.name, e.state, e.ipaddr>>

Settled(e) == e.state \in {STATE_DONE, STATE_ERROR}

\* C31: an entry that becomes Done holds the address carried by the answer
\* that resolved it, and an entry that is Done or Error keeps its name, state
\* and address under every driver scan and every inbound datagram; only a
\* resolv_query that selects its slot changes it.
C31_SettledEntriesKeep ==
  [][\A i \in Slots :
       /\ (names[i].state # STATE_DONE /\ names'[i].state = STATE_DONE) =>
             /\ last'.op = "newdata"
             /\ AnswerAddress(last'.pkt, UIP_CONF_IPV6) \notin {NULL, Fault}
             /\ names'[i].ipaddr = AnswerAddress(last'.pkt, UIP_CONF_IPV6)
       /\ (Settled(names[i]) /\ last'.op \in {"check_entries", "newdata"}) =>
             Outcome(names'[i]) = Outcome(names[i])
       /\ (Settled(names[i]) /\ Outcome(names'[i]) # Outcome(names[i])) =>
             (last'.op = "resolv_query" /\ last'.slot = i)]_vars

\* the response to the question first sent for the first entry, which may
\* arrive at any later time
LateDatagrams(ipv6) == {GoodResponse(0, ipv6)}

NextLate ==
  \/ \E buf \in LateDatagrams(UIP_CONF_IPV6) : newdata(buf)
  \/ check_entries
  \/ resolv_query(b_local)

\* the full table, one more name asked for, and that response
SpecLate == InitReuse /\ [][NextLate]_vars

\* is the first question of datagram buf a question for name
AsksFor(buf, name) ==
  LET q == encode_name(name)
  IN  /\ Len(buf) >= SIZEOF_DNS_HDR + Len(q)
      /\ SubSeq(buf, SIZEOF_DNS_HDR + 1, SIZEOF_DNS_HDR + Len(q)) = q

\* C32: an address is recorded for a name only if it arrived in a response
\* to a question that was sent for that name; the response to a question
\* sent for a name that has since been evicted from its slot is not applied
\* to the name that holds the slot now.
C32_AnswerIsForTheName ==
  [][\A i \in Slots :
       (names[i].state # STATE_DONE /\ names'[i].state = STATE_DONE) =>
         /\ last'.op = "newdata"
         /\ nsent[i] > 0
         /\ AsksFor(last'.pkt, names[i].name)]_vars

\* the datagram of GoodResponse with the flag bytes flags1 and flags2
FlaggedDatagram(i, flags1, flags2, ipv6) ==
  dns_hdr(RESOLV_ENCODE_INDEX(i), flags1, flags2, 1, 1)
  \o question_rr(host_example, QType(ipv6), DNS_CLASS_IN)
  \o answer_rr(NamePtr, QType(ipv6), DNS_CLASS_IN, AddrLen(ipv6), Addr1(ipv6))

\* datagrams for the first entry with and without the response flag, with
\* other flag bits set or not, with and without an error code; flag bytes
\* that are both zero make a request, which the responder handles
FlagDatagrams(ipv6) ==
  {FlaggedDatagram(0, f1, f2, ipv6) :
     f1 \in {0, DNS_FLAG1_RD, DNS_FLAG1_AUTHORATIVE, FlagsResponse},
     f2 \in {0, FlagsRA, FlagsNameError}}
  \ {FlaggedDatagram(0, 0, 0, ipv6)}

NextFlags ==
  \/ \E buf \in FlagDatagrams(UIP_CONF_IPV6) : newdata(buf)
  \/ check_entries

\* four names asked for, and those datagrams
SpecFlags == InitPending /\ [][NextFlags]_vars

\* DNS_FLAG1_RESPONSE is set in the first flag byte of datagram buf
HasResponseFlag(buf) == (Rd(buf, 2) \div DNS_FLAG1_RESPONSE) % 2 = 1

\* C33: only an inbound datagram with the response flag set changes a table
\* entry or causes a resolved-notification; one without it never does,
\* whatever its other flag bits are.
C33_OnlyResponsesApply ==
  [][(last'.op = "newdata" /\ (names' # names \/ found' # <<>>))
       => HasResponseFlag(last'.pkt)]_vars

\* C34: while an entry is Asking, the number of questions sent for it since
\* it last left New is its retries count plus one; an entry that becomes
\* Error without a response has had exactly the configured maximum number
\* of questions sent for it.
C34_QuestionsSentIsRetriesPlusOne ==
  \A i \in Slots :
    /\ names[i].state = STATE_ASKING => nsent[i] = names[i].retries + 1
    /\ (names[i].state = STATE_ERROR /\ ~answered[i]) =>
         nsent[i] = RetryLimit(names[i])

\* C34 witness: the unicast entry "b" and the mDNS entry "contiki.local" have
\* run out of retries without a response, after 8 and 3 questions, while
\* the entry asked for last is Asking and has had its second question sent.
C34_Witness ==
  /\ names[2].state = STATE_ERROR /\ ~answered[2] /\ nsent[2] = RESOLV_CONF_MAX_RETRIES
  /\ names[1].state = STATE_ERROR /\ ~answered[1]
  /\ nsent[1] = RESOLV_CONF_MAX_MDNS_RETRIES
  /\ names[0].name = b_local /\ names[0].state = STATE_ASKING
  /\ names[0].retries = 1 /\ nsent[0] = 2

\* C35: whenever an entry is Asking its timer is at least 1, so the
\* pre-decrement of the 8-bit timer in check_entries never takes it from 0
\* to 255.
C35_AskingTimerAtLeastOne ==
  \A i \in Slots :
    names[i].state = STATE_ASKING => (names[i].tmr >= 1 /\ names[i].tmr # 255)

\* C35 witness: scans have brought the timer of the Asking entry "b" down
\* from 7 to 1 before its last retry, and the entry asked for last has just
\* become Asking with timer 1.
C35_Witness ==
  /\ last.op = "check_entries"
  /\ names[2].state = STATE_ASKING /\ names[2].tmr = 1
  /\ names[2].retries = RESOLV_CONF_MAX_RETRIES - 1
  /\ names[0].name = b_local /\ names[0].state = STATE_ASKING
  /\ names[0].tmr = 1 /\ names[0].retries = 0

====
